---- MODULE Spec2Model ----
(***************************************************************************)
(* Schedule -> deliver pipeline of the irancrypto social bot:              *)
(*   - the DynamoDB-backed store of scheduled posts (src/dynamodb.js),     *)
(*   - the Poster lambda (poster.js handler) and the content routines it   *)
(*     dispatches to (src/content.js),                                     *)
(*   - the Scheduler lambda (scheduler.js midnight),                       *)
(*   - the Twitter publisher and its credential record (src/twitter.js),   *)
(*   - the AI client and its provider selection (src/ai/request.js).       *)
(* Time is in unix seconds counted from 00:00 UTC of the first day of a    *)
(* month of monthLen days.                                                 *)
(***************************************************************************)
EXTENDS Integers, Sequences, FiniteSets, TLC

VARIABLES
  now,          \* Date.now()/1000, seconds
  store,        \* the DynamoDB table: id -> item or NoItem
  lastCall,     \* history: <<platform,target>> -> arguments of the latest schedulePost since the
                \* last removeScheduledPost of the pair
  pc,           \* position of the Poster handler
  scanned,      \* result.Items of the due-scan of the running Poster cycle
  posts,        \* items of the scan the for-loop has not visited yet
  cur,          \* item whose publish routine returned and whose delete is pending
  outcome,      \* id -> what the publish routine did for the entries visited in this cycle
  removed,      \* ids removeScheduledPost was called for in this cycle
  status,       \* what the Poster handler returned
  dropped,      \* ids of the versions this cycle deleted although it had not published them
  monthLen,     \* number of days of the month that contains time 0
  firstWeekday, \* moment().day() of the day that contains time 0 (0 = Sunday)
  hostOffset,   \* UTC offset of the process-local timezone used by moment()
  cycle,        \* record of the last Scheduler cycle
  env,          \* process.env: the names that are set to a non-empty value
  client,       \* twitter.js: the module-level client of this process
  tw,           \* record of the last tweet() call
  aiProvider,   \* process.env.AI_PROVIDER, "" when unset
  asked,        \* record of the last ask() call
  pure,         \* record of the last call of a text routine: its input and what it returned
  job           \* record of the last run of the legacy tweet job

vars == <<now, store, lastCall, pc, scanned, posts, cur, outcome, removed, status,
          dropped, monthLen, firstWeekday, hostOffset, cycle, env, client, tw,
          aiProvider, asked, pure, job>>

posterVars == <<pc, scanned, posts, cur, outcome, removed, status>>
calendarVars == <<monthLen, firstWeekday, hostOffset>>
publisherVars == <<env, client, tw, aiProvider, asked>>
textVars == <<pure, job>>

----------------------------------------------------------------------------
(* Bounds of the model *)

MaxNow == 1        \* the Poster clock runs over 0..MaxNow
MaxPosts == 2      \* at most this many scheduled posts are in the table at once

----------------------------------------------------------------------------
(* Payloads.  A payload is the array the market API returned; of each item  *)
(* only its volume figure is kept.  Volumes are counted in units of 2^51,   *)
(* so Number.MAX_SAFE_INTEGER = 2^53 - 1 lies between 3 and 4 units.        *)

MAX_SAFE_INTEGER == 3

Num(v) == [k |-> "num", v |-> v]
Str(v) == [k |-> "str", v |-> v]

\* the arrays a market-data request can resolve to
ApiArrays == { <<>>, <<Num(1)>>, <<Num(4)>> }

\* convertLargeNumbersToString: a number above MAX_SAFE_INTEGER becomes its decimal string
convertLargeNumbersToString(data) ==
  [i \in DOMAIN data |->
     IF data[i].k = "num" /\ data[i].v > MAX_SAFE_INTEGER
       THEN Str(data[i].v)
       ELSE data[i]]

----------------------------------------------------------------------------
(* The table *)

NoItem == [kind |-> "none"]

\* no Scheduler cycle on record
NoCycle == [ran |-> FALSE]

\* no client built in this process yet (let client;)
NoClient == [kind |-> "none"]

\* tweet() has not been called
NoTweet == [called |-> FALSE]

\* ask() has not been called
NoAsk == [called |-> FALSE]

\* no text routine was called yet
NoPure == [op |-> "none"]

\* the legacy tweet job has not run
NoJob == [ran |-> FALSE]

\* the keys of the records the publishers and the legacy job keep in the same table
RecordIds == {"twitter", "instagram", "last-run-tweet"}

\* (platform, target) pairs schedulePost is called with
Pairs == { <<"twitter", "trends">>, <<"twitter", "nft">>,
           <<"instagram", "weekly-coin">>, <<"facebook", "trends">> }

PostIdByPlatform(platform, target) == "post-" \o platform

\* the key both schedulePost and removeScheduledPost build
PostId(platform, target) == "post-" \o platform \o "-" \o target

\* the pairs the Scheduler writes
ScheduledPairs == { <<"telegram", "dailyrecap">>, <<"twitter", "trends">>, <<"twitter", "vol">>,
                    <<"instagram", "weekly-coin">>, <<"instagram", "monthly-exchange">> }

PostIds == { PostId(p[1], p[2]) : p \in Pairs \cup ScheduledPairs }

TableIds == PostIds \cup RecordIds

PostItem(platform, target, data, timestamp) ==
  [kind |-> "post", id |-> PostId(platform, target), platform |-> platform,
   target |-> target, data |-> data, timestamp |-> timestamp]

\* schedulePost: PutCommand of the item under its id (upsert)
schedulePost(st, platform, target, data, timestamp) ==
  [st EXCEPT ![PostId(platform, target)] =
     PostItem(platform, target, convertLargeNumbersToString(data), timestamp)]

getScheduledPostsStrict(st, t) ==
  { st[id] : id \in { i \in DOMAIN st : st[i] # NoItem /\ st[i].timestamp < t } }

getScheduledPostsNewlyDue(st, t) ==
  { st[id] : id \in { i \in DOMAIN st : st[i] # NoItem /\ st[i].timestamp = t } }

\* getScheduledPosts: ScanCommand with attribute_exists(timestamp) AND timestamp <= :now
getScheduledPosts(st, t) ==
  { st[id] : id \in { i \in DOMAIN st : st[i] # NoItem /\ st[i].timestamp <= t } }

removeScheduledPostByPlatform(st, platform, target) ==
  [st EXCEPT ![platform] = NoItem]

\* removeScheduledPost: DeleteCommand by key
removeScheduledPost(st, platform, target) ==
  [st EXCEPT ![PostId(platform, target)] = NoItem]

\* A Scan walks the table in the order of its partitions: an order the code
\* neither chooses nor changes, here the order of this list of the keys.
ScanOrder == << PostId("facebook", "trends"), PostId("twitter", "trends"),
                PostId("instagram", "weekly-coin"), PostId("twitter", "nft"),
                PostId("telegram", "dailyrecap"), PostId("twitter", "vol"),
                PostId("instagram", "monthly-exchange") >>

ScanRank(id) == CHOOSE k \in DOMAIN ScanOrder : ScanOrder[k] = id

\* the item the for-of loop visits next
FirstOf(items) == CHOOSE x \in items : \A y \in items : ScanRank(x.id) <= ScanRank(y.id)

NumPosts(st) == Cardinality({ i \in DOMAIN st : st[i] # NoItem })

----------------------------------------------------------------------------
(* Content routines (src/content.js).  What the outside world does is an    *)
(* argument: ai is what writeTweet / writeCaption return ("text" or "null"),*)
(* img whether createImageFromTemplate produced an image ("ok" or "fail"),  *)
(* pub whether the platform call resolved ("ok") or rejected ("throw").     *)

AiOutcomes == {"text", "null"}
ImgOutcomes == {"ok", "fail"}
PubOutcomes == {"ok", "throw"}

Returned == [published |-> FALSE, threw |-> FALSE]
Published == [published |-> TRUE, threw |-> FALSE]
Threw == [published |-> FALSE, threw |-> TRUE]

\* buildTweetPrompt returns "" for any type but 'trends' and 'vol'
buildTweetPrompt(type) == IF type \in {"trends", "vol"} THEN "prompt" ELSE ""

makeTweet(target, data, ai, pub) ==
  IF buildTweetPrompt(target) = "" THEN Returned      \* Unknown tweet target
  ELSE IF ai = "null" THEN Returned                   \* Failed to generate tweet
  ELSE IF pub = "ok" THEN Published                   \* await tweet(phrase)
  ELSE Threw

makeTelegram(target, data, img, pub) ==
  IF img = "fail" THEN Threw                          \* Image is not generated!
  ELSE IF pub = "ok" THEN Published                   \* await bot.sendPhoto(...)
  ELSE Threw

\* buildInstagramPrompt reads top5[0].name, which throws on an empty array
makeInstagram(target, data, img, ai, pub) ==
  IF target \in {"weekly-coin", "monthly-exchange"}
    THEN IF img = "fail" THEN Threw
         ELSE IF Len(data) = 0 THEN Threw
         ELSE IF pub = "ok" THEN Published            \* publishImage(image, caption), caption may be null
         ELSE Threw
    ELSE Returned

\* the switch of the Poster handler
Dispatch(platform, target, data, ai, img, pub) ==
  CASE platform = "twitter" -> makeTweet(target, data, ai, pub)
    [] platform = "instagram" -> makeInstagram(target, data, img, ai, pub)
    [] platform = "telegram" -> makeTelegram(target, data, img, pub)
    [] OTHER -> Returned

----------------------------------------------------------------------------
(* The Poster handler *)

RemoveAlways(threw) == TRUE

\* removeScheduledPost is the statement after the switch, inside the try
RemoveFollows(threw) == ~threw

BreakOnError(rest, threw) == IF threw THEN {} ELSE rest

\* the catch is inside the for-loop: the loop goes on with the other items
LoopRest(rest, threw) == rest

NoOutcome == [i \in PostIds |-> "none"]

PosterScan ==
  /\ pc = "idle"
  /\ scanned' = getScheduledPosts(store, now)
  /\ posts' = scanned'
  /\ outcome' = NoOutcome
  /\ removed' = {}
  /\ dropped' = {}
  /\ status' = 0
  /\ cur' = NoItem
  /\ pc' = "loop"
  /\ UNCHANGED <<now, store, lastCall, calendarVars, textVars, cycle, publisherVars>>

\* one pass of the loop body up to the delete: r is what the publish routine did
LoopBody(post, r) ==
  LET rest == posts \ {post}
  IN IF RemoveFollows(r.threw)
       THEN /\ cur' = post
            /\ outcome' = [outcome EXCEPT ![post.id] =
                             IF r.published THEN "published"
                             ELSE IF r.threw THEN "threw" ELSE "skipped"]
            /\ posts' = rest
            /\ pc' = "remove"
       ELSE /\ cur' = NoItem
            /\ outcome' = [outcome EXCEPT ![post.id] = "threw"]
            /\ posts' = LoopRest(rest, r.threw)
            /\ pc' = "loop"

PosterDispatch ==
  /\ pc = "loop"
  /\ posts # {}
  /\ \E ai \in AiOutcomes, img \in ImgOutcomes, pub \in PubOutcomes :
       LET post == FirstOf(posts)
       IN LoopBody(post, Dispatch(post.platform, post.target, post.data, ai, img, pub))
  /\ UNCHANGED <<now, store, lastCall, scanned, removed, status, dropped, calendarVars, textVars, cycle, publisherVars>>

PosterRemove ==
  /\ pc = "remove"
  /\ store' = removeScheduledPost(store, cur.platform, cur.target)
  /\ lastCall' = [lastCall EXCEPT ![<<cur.platform, cur.target>>] = NoItem]
  /\ removed' = removed \cup {cur.id}
  /\ dropped' = IF store[cur.id] # NoItem /\ ~(outcome[cur.id] = "published" /\ store[cur.id] = cur)
                  THEN dropped \cup {cur.id} ELSE dropped
  /\ cur' = NoItem
  /\ pc' = "loop"
  /\ UNCHANGED <<now, scanned, posts, outcome, status, calendarVars, textVars, cycle, publisherVars>>

PosterReturn ==
  /\ pc = "loop"
  /\ posts = {}
  /\ status' = 200
  /\ pc' = "done"
  /\ UNCHANGED <<now, store, lastCall, scanned, posts, cur, outcome, removed,
                 dropped, calendarVars, textVars, cycle, publisherVars>>

----------------------------------------------------------------------------
(* The environment of the Poster: the clock, and callers of schedulePost *)

\* the invocation ends; its locals are gone
PosterExit ==
  /\ pc = "done"
  /\ pc' = "idle"
  /\ scanned' = {}
  /\ posts' = {}
  /\ cur' = NoItem
  /\ outcome' = NoOutcome
  /\ removed' = {}
  /\ dropped' = {}
  /\ status' = 0
  /\ tw' = NoTweet
  /\ asked' = NoAsk
  /\ UNCHANGED <<now, store, lastCall, calendarVars, textVars, cycle, env, client, aiProvider>>

\* the Poster reads the clock once, in its scan: time passing inside a cycle
\* changes nothing, so the clock moves between cycles
Tick ==
  /\ pc = "idle"
  /\ now < MaxNow
  /\ now' = now + 1
  /\ UNCHANGED <<store, lastCall, posterVars, dropped, calendarVars, textVars, cycle, publisherVars>>

\* A caller of schedulePost (the Scheduler).  The Poster reads the table in
\* its scan only and writes it in removeScheduledPost only, so a call that falls
\* inside a Poster cycle is felt only when it lands between the scan and the
\* delete of the same key: it is taken right before that delete.
SchedulePostCall ==
  /\ pc \in {"idle", "remove"}
  /\ \E p \in Pairs, data \in ApiArrays, ts \in 0..MaxNow :
       /\ pc = "remove" => p = <<cur.platform, cur.target>>
       /\ store[PostId(p[1], p[2])] = NoItem => NumPosts(store) < MaxPosts
       /\ store' = schedulePost(store, p[1], p[2], data, ts)
       /\ lastCall' = [lastCall EXCEPT ![p] = [kind |-> "call", data |-> data, timestamp |-> ts]]
  /\ UNCHANGED <<now, posterVars, dropped, calendarVars, textVars, cycle, publisherVars>>

Init ==
  /\ now = 0
  /\ store = [i \in TableIds |-> NoItem]
  /\ lastCall = [p \in Pairs |-> NoItem]
  /\ pc = "idle"
  /\ scanned = {}
  /\ posts = {}
  /\ cur = NoItem
  /\ outcome = NoOutcome
  /\ removed = {}
  /\ status = 0
  /\ dropped = {}
  /\ monthLen = 30
  /\ firstWeekday = 0
  /\ hostOffset = 0
  /\ pure = NoPure
  /\ job = NoJob
  /\ cycle = NoCycle
  /\ env = {}
  /\ client = NoClient
  /\ tw = NoTweet
  /\ aiProvider = ""
  /\ asked = NoAsk

Next ==
  \/ Tick
  \/ SchedulePostCall
  \/ PosterScan
  \/ PosterDispatch
  \/ PosterRemove
  \/ PosterReturn
  \/ PosterExit

Spec == Init /\ [][Next]_vars

----------------------------------------------------------------------------
(* The calendar of moment / moment-timezone.  A day index counts the days   *)
(* from the first day of the month that contains time 0.                    *)

DaySec == 24 * 3600
HourSec == 60 * 60

\* UTC offset of SCHEDULE_TIMEZONE, "Asia/Tehran" unless configured: +03:30, no DST
ScheduleTzOffset == 3 * 3600 + 1800

LocalDay(t, offset) == (t + offset) \div DaySec
MonthOfDay(d) == IF d < monthLen THEN 0 ELSE 1
Weekday(d) == (firstWeekday + d) % 7

\* moment().add(1,'day').set({hour, minute: 0, ...}).tz(SCHEDULE_TIMEZONE, true).unix():
\* tomorrow's date of the process-local clock, hour:00 read as wall time of the zone
getNextScheduleTime(t, hour) ==
  (LocalDay(t, hostOffset) + 1) * DaySec + hour * HourSec - ScheduleTzOffset

isTodayLastDayOfMonth(t) ==
  MonthOfDay(LocalDay(t, ScheduleTzOffset)) # MonthOfDay(LocalDay(t, ScheduleTzOffset) + 1)

isAnyDay(t) == TRUE

\* moment().tz(SCHEDULE_TIMEZONE).day() === 5
isFriday(t) == Weekday(LocalDay(t, ScheduleTzOffset)) = 5

----------------------------------------------------------------------------
(* The market-data client (src/api.js).  A response is what the HTTP        *)
(* request of a call does: it fails, or its JSON body is null or an array.  *)

Fail == [kind |-> "fail", items |-> <<>>]
Null == [kind |-> "null", items |-> <<>>]
Arr(a) == [kind |-> "array", items |-> a]
ApiResponses == { Fail, Null, Arr(<<>>), Arr(<<Num(1)>>) }

ThrewR == [threw |-> TRUE, body |-> Null]
Ok(body) == [threw |-> FALSE, body |-> body]

validTypes == {"exchange", "coin"}
validIntervals == {"weekly", "monthly"}

\* request: throws on a non-2xx response, else resolves to the body
request(resp) == IF resp.kind = "fail" THEN ThrewR ELSE Ok(resp)

getPopular(resp) == request(resp)

getRecap(type, interval, resp) ==
  IF type \notin validTypes THEN ThrewR
  ELSE IF interval \notin validIntervals THEN ThrewR
  ELSE request(resp)

----------------------------------------------------------------------------
(* The Scheduler (scheduler.js).  A run carries the table, the schedulePost *)
(* calls made so far and whether an exception is propagating.               *)

NewRun(st) == [st |-> st, calls |-> <<>>, threw |-> FALSE]

Put(run, platform, target, data, timestamp) ==
  [run EXCEPT !.st = schedulePost(@, platform, target, data, timestamp),
              !.calls = Append(@, [platform |-> platform, target |-> target,
                                   data |-> data, timestamp |-> timestamp])]

\* if (data): null is falsy, every array is truthy
Truthy(body) == body.kind # "null"

scheduleDailyRecap(run, t, resp) ==
  LET r == getRecap("coin", "daily", resp)
  IN IF r.threw THEN [run EXCEPT !.threw = TRUE]
     ELSE IF Truthy(r.body)
       THEN Put(run, "telegram", "dailyrecap", r.body.items, getNextScheduleTime(t, 9))
       ELSE run

scheduleDailyPopular(run, t, resp) ==
  LET r == getPopular(resp)
  IN IF r.threw THEN [run EXCEPT !.threw = TRUE]
     ELSE IF Truthy(r.body)
       THEN Put(Put(run, "twitter", "trends", r.body.items, getNextScheduleTime(t, 9)),
                "twitter", "vol", r.body.items, getNextScheduleTime(t, 9) + HourSec)
       ELSE run

scheduleWeeklyRecap(run, t, resp) ==
  LET r == getRecap("coin", "weekly", resp)
  IN IF r.threw THEN [run EXCEPT !.threw = TRUE]
     ELSE IF Truthy(r.body)
       THEN Put(run, "instagram", "weekly-coin", r.body.items, getNextScheduleTime(t, 9))
       ELSE run

scheduleMonthlyRecap(run, t, resp) ==
  LET r == getRecap("exchange", "monthly", resp)
  IN IF r.threw THEN [run EXCEPT !.threw = TRUE]
     ELSE IF Truthy(r.body)
       THEN Put(run, "instagram", "monthly-exchange", r.body.items, getNextScheduleTime(t, 9))
       ELSE run

Families == {"daily", "popular", "weekly", "monthly"}

\* midnight: the awaits in sequence, no try/catch: a throw ends the handler
midnight(st, t, resp) ==
  LET r1 == scheduleDailyRecap(NewRun(st), t, resp["daily"])
      r2 == IF r1.threw THEN r1 ELSE scheduleDailyPopular(r1, t, resp["popular"])
      r3 == IF r2.threw THEN r2
            ELSE IF isFriday(t) THEN scheduleWeeklyRecap(r2, t, resp["weekly"]) ELSE r2
      r4 == IF r3.threw THEN r3
            ELSE IF isTodayLastDayOfMonth(t) THEN scheduleMonthlyRecap(r3, t, resp["monthly"])
            ELSE r3
  IN r4

\* one invocation of the Scheduler lambda
Midnight ==
  /\ ~cycle.ran
  /\ \E resp \in [Families -> ApiResponses] :
       LET r == midnight(store, now, resp)
       IN /\ store' = r.st
          /\ cycle' = [ran |-> TRUE, at |-> now, resp |-> resp, calls |-> r.calls,
                       threw |-> r.threw]
  /\ UNCHANGED <<now, lastCall, posterVars, dropped, calendarVars, textVars, publisherVars>>

\* the instant of wall time sec of day d (1 = first of the month) in the schedule zone
Instant(d, sec) == (d - 1) * DaySec + sec - ScheduleTzOffset

\* 00:00 and 23:59 of the last two days of the month
StartInstants(len) ==
  { Instant(d, sec) : d \in {len - 1, len}, sec \in {0, 23 * 3600 + 59 * 60} }

SchedInit ==
  /\ monthLen \in 28..31
  /\ firstWeekday \in 0..6
  /\ hostOffset \in {0, ScheduleTzOffset}
  /\ pure = NoPure
  /\ job = NoJob
  /\ now \in StartInstants(monthLen)
  /\ store = [i \in TableIds |-> NoItem]
  /\ lastCall = [p \in Pairs |-> NoItem]
  /\ pc = "idle"
  /\ scanned = {}
  /\ posts = {}
  /\ cur = NoItem
  /\ outcome = NoOutcome
  /\ removed = {}
  /\ status = 0
  /\ dropped = {}
  /\ cycle = NoCycle
  /\ env = {}
  /\ client = NoClient
  /\ tw = NoTweet
  /\ aiProvider = ""
  /\ asked = NoAsk

\* the next day's trigger comes up: the record of the finished cycle is dropped
NextDay ==
  /\ cycle.ran
  /\ LocalDay(now, ScheduleTzOffset) < monthLen
  /\ now' = now + DaySec
  /\ cycle' = NoCycle
  /\ UNCHANGED <<store, lastCall, posterVars, dropped, calendarVars, textVars, publisherVars>>

SchedNext == Midnight \/ NextDay

SchedSpec == SchedInit /\ [][SchedNext]_vars

----------------------------------------------------------------------------
(* The family routines of scheduler.js taken one at a time, each called     *)
(* with a response of the market API.                                       *)

FamilyCall(family, resp, r) ==
  /\ store' = r.st
  /\ cycle' = [ran |-> TRUE, family |-> family, resp |-> resp, calls |-> r.calls,
               threw |-> r.threw]
  /\ UNCHANGED <<now, lastCall, posterVars, dropped, calendarVars, textVars, publisherVars>>

CallScheduleDailyRecap ==
  \E resp \in ApiResponses :
    FamilyCall("daily", resp, scheduleDailyRecap(NewRun(store), now, resp))

CallScheduleDailyPopular ==
  \E resp \in ApiResponses :
    FamilyCall("popular", resp, scheduleDailyPopular(NewRun(store), now, resp))

CallScheduleWeeklyRecap ==
  \E resp \in ApiResponses :
    FamilyCall("weekly", resp, scheduleWeeklyRecap(NewRun(store), now, resp))

CallScheduleMonthlyRecap ==
  \E resp \in ApiResponses :
    FamilyCall("monthly", resp, scheduleMonthlyRecap(NewRun(store), now, resp))

\* midnight's gated steps on their own: if (day() === 5) await scheduleWeeklyRecap()
weeklyStep(run, t, resp) ==
  IF isFriday(t) THEN scheduleWeeklyRecap(run, t, resp) ELSE run

monthlyStep(run, t, resp) ==
  IF isTodayLastDayOfMonth(t) THEN scheduleMonthlyRecap(run, t, resp) ELSE run

MidnightWeeklyStep ==
  \E resp \in ApiResponses :
    FamilyCall("weekly-step", resp, weeklyStep(NewRun(store), now, resp))

MidnightMonthlyStep ==
  \E resp \in ApiResponses :
    FamilyCall("monthly-step", resp, monthlyStep(NewRun(store), now, resp))

FamilyNext ==
  \/ CallScheduleDailyRecap
  \/ CallScheduleDailyPopular
  \/ CallScheduleWeeklyRecap
  \/ CallScheduleMonthlyRecap
  \/ MidnightWeeklyStep
  \/ MidnightMonthlyStep

FamilySpec == SchedInit /\ [][FamilyNext]_vars

----------------------------------------------------------------------------
(* The Twitter publisher (src/twitter.js) in serverless mode, and the two   *)
(* records the publishers keep in the table (src/dynamodb.js).              *)

\* Date.now() of the clock value t: milliseconds
DateNow(t) == t * 1000

\* expiresIn of the record init builds from the bootstrap tokens
DefaultExpiresIn == 6000

\* getENV(key) without a default: throws when the variable is unset or empty
getENV(e, key) ==
  IF key \in e THEN [threw |-> FALSE, value |-> "env:" \o key]
  ELSE [threw |-> TRUE, value |-> ""]

\* getTwitter: GetCommand of id "twitter", result.Item ?? false
getTwitter(st) == st["twitter"]

CredentialRecordSwapped(data, millis) ==
  [kind |-> "credential", id |-> "twitter", accessToken |-> data.refreshToken,
   refreshToken |-> data.accessToken, expiresIn |-> data.expiresIn, timestamp |-> millis]

CredentialRecord(data, millis) ==
  [kind |-> "credential", id |-> "twitter", accessToken |-> data.accessToken,
   refreshToken |-> data.refreshToken, expiresIn |-> data.expiresIn, timestamp |-> millis]

updateTwitterKeepTimestamp(st, data, t) ==
  [st EXCEPT !["twitter"] =
     CredentialRecord(data, IF @ = NoItem THEN DateNow(t) ELSE @.timestamp)]

\* updateTwitter: PutCommand of { ...data, id: "twitter", timestamp: Date.now() }
updateTwitter(st, data, t) ==
  [st EXCEPT !["twitter"] = CredentialRecord(data, DateNow(t))]

updateInstagramInSeconds(st, session, t) ==
  [st EXCEPT !["instagram"] =
     [kind |-> "session", id |-> "instagram", session |-> session, timestamp |-> t]]

\* updateInstagram: PutCommand of { session, id: "instagram", timestamp: Date.now() }
updateInstagram(st, session, t) ==
  [st EXCEPT !["instagram"] =
     [kind |-> "session", id |-> "instagram", session |-> session, timestamp |-> DateNow(t)]]

\* new TwitterApi(accessToken) / refreshResult.client
TwitterApi(token) == [kind |-> "client", token |-> token]

\* what tempClient.refreshOAuth2Token does: it rejects, or resolves to new
\* tokens, the refresh token possibly missing
RefreshThrows == [kind |-> "throw"]
RefreshResults ==
  {RefreshThrows} \cup
  [kind : {"ok"}, accessToken : {"a1"}, refreshToken : {"", "r1"}, expiresIn : {50, 200}]

\* the negation of: Date.now() - storedData.timestamp < storedData.expiresIn * 1000
isExpired(rec, t) == ~(DateNow(t) - rec.timestamp < rec.expiresIn * 1000)

InitSwallowed(st, action, requested) ==
  [threw |-> FALSE, client |-> NoClient, st |-> st, action |-> action, requested |-> requested]

InitThrew(st, action, requested) ==
  [threw |-> TRUE, client |-> NoClient, st |-> st, action |-> action, requested |-> requested]

InitOk(st, cl, action, requested) ==
  [threw |-> FALSE, client |-> cl, st |-> st, action |-> action, requested |-> requested]

\* init(): refresh is what the refresh request does if it is made
init(st, t, e, refresh) ==
  LET storedData == getTwitter(st)
      accessToken == getENV(e, "TWITTER_ACCESS_TOKEN")
      refreshToken == getENV(e, "TWITTER_REFRESH_TOKEN")
  IN IF storedData = NoItem
       THEN IF \/ accessToken.threw \/ refreshToken.threw
               \/ accessToken.value = "" \/ refreshToken.value = ""
              THEN InitThrew(st, "first", FALSE)
              ELSE InitOk(updateTwitter(st, [accessToken |-> accessToken.value,
                                            refreshToken |-> refreshToken.value,
                                            expiresIn |-> DefaultExpiresIn], t),
                          TwitterApi(accessToken.value), "first", FALSE)
     ELSE IF ~isExpired(storedData, t)
       THEN InitOk(st, TwitterApi(storedData.accessToken), "not_expired", FALSE)
     ELSE IF getENV(e, "TWITTER_CLIENT_ID").threw \/ getENV(e, "TWITTER_CLIENT_SECRET").threw
       THEN InitThrew(st, "refresh", FALSE)
     ELSE IF refresh = RefreshThrows
       THEN InitThrew(st, "refresh", TRUE)
     ELSE IF refresh.refreshToken # ""
       THEN InitOk(updateTwitter(st, [accessToken |-> refresh.accessToken,
                                     refreshToken |-> refresh.refreshToken,
                                     expiresIn |-> refresh.expiresIn], t),
                   TwitterApi(refresh.accessToken), "refresh", TRUE)
     ELSE InitThrew(st, "refresh", TRUE)

\* if (!client) client = await init();
HasClient(cl) == cl # NoClient

\* tweet(text): post is what the request client.v2.tweet does if it is made
tweet(st, cl, t, e, refresh, post) ==
  LET i == IF HasClient(cl) THEN InitOk(st, cl, "cached", FALSE) ELSE init(st, t, e, refresh)
  IN [threw |-> i.threw \/ post = "throw",
      sent |-> ~i.threw,
      posted |-> ~i.threw /\ post = "ok",
      client |-> IF i.threw THEN cl ELSE i.client,
      st |-> i.st,
      action |-> i.action,
      requested |-> i.requested,
      result |-> IF i.requested THEN refresh ELSE RefreshThrows,
      refreshed |-> i.action = "refresh" /\ ~i.threw]

----------------------------------------------------------------------------
(* The Poster with its publishers: a process (a Lambda container) serves    *)
(* one invocation after the other and keeps its module-level client until   *)
(* the container is replaced.                                               *)

EnvNames == {"TWITTER_ACCESS_TOKEN", "TWITTER_REFRESH_TOKEN", "TWITTER_CLIENT_ID",
             "TWITTER_CLIENT_SECRET", "IG_STORE_SESSION"}

\* the configurations: every name set, or all but one of the Twitter names
PubEnvs == {EnvNames} \cup { EnvNames \ {n} : n \in EnvNames \ {"IG_STORE_SESSION"} }

\* the posts of this part of the model
PubPairs == { <<"twitter", "trends">>, <<"instagram", "weekly-coin">> }

\* the clock starts at PubStart and moves in short steps, at most MaxShortSteps
\* of them in a row, and once by the default expiry
PubStart == 1000
ShortStep == 100
MaxShortSteps == 2
ShortSteps(t) == ((t - PubStart) % DefaultExpiresIn) \div ShortStep

\* igapi login(): with IG_STORE_SESSION the state is serialized and saved when
\* the first request ends (saved: the save got through before the process froze)
igLogin(st, t, e, saved) ==
  IF "IG_STORE_SESSION" \in e /\ saved THEN updateInstagram(st, "serialized", t) ELSE st

\* makeTweet gets as far as await tweet(phrase)
CallsTweet(post, ai) ==
  post.platform = "twitter" /\ buildTweetPrompt(post.target) # "" /\ ai # "null"

\* makeInstagram gets as far as publishImage(image, caption)
CallsPublishImage(post, img) ==
  /\ post.platform = "instagram"
  /\ post.target \in {"weekly-coin", "monthly-exchange"}
  /\ img = "ok"
  /\ Len(post.data) # 0

TweetRecord(post, tr) ==
  [called |-> TRUE, id |-> post.id, at |-> now, cached |-> HasClient(client),
   before |-> getTwitter(store), refresh |-> tr.requested, refreshed |-> tr.refreshed,
   result |-> tr.result,
   action |-> tr.action, sent |-> tr.sent, posted |-> tr.posted, threw |-> tr.threw,
   rest |-> posts \ {post}]

\* the loop body of the handler with the publishers it reaches
PubDispatch ==
  /\ pc = "loop"
  /\ posts # {}
  /\ \E ai \in AiOutcomes, img \in ImgOutcomes, pub \in PubOutcomes,
        refresh \in RefreshResults, saved \in BOOLEAN :
       LET post == FirstOf(posts)
           tr == tweet(store, client, now, env, refresh, pub)
           done == IF CallsTweet(post, ai) THEN (IF tr.threw THEN "throw" ELSE "ok") ELSE pub
       IN /\ LoopBody(post, Dispatch(post.platform, post.target, post.data, ai, img, done))
          /\ store' = IF CallsTweet(post, ai) THEN tr.st
                      ELSE IF CallsPublishImage(post, img) THEN igLogin(store, now, env, saved)
                      ELSE store
          /\ client' = IF CallsTweet(post, ai) THEN tr.client ELSE client
          /\ tw' = IF CallsTweet(post, ai) THEN TweetRecord(post, tr) ELSE tw
  /\ UNCHANGED <<now, lastCall, scanned, removed, status, dropped, calendarVars, textVars, cycle, env,
                 aiProvider, asked>>

\* the container is replaced: the next invocation runs in a new process
ColdStart ==
  /\ pc = "idle"
  /\ client # NoClient
  /\ client' = NoClient
  /\ UNCHANGED <<now, store, lastCall, posterVars, dropped, calendarVars, textVars, cycle, env, tw,
                 aiProvider, asked>>

PubTick ==
  /\ pc = "idle"
  /\ \/ /\ ShortSteps(now) < MaxShortSteps
        /\ now' = now + ShortStep
     \/ /\ now - PubStart < DefaultExpiresIn
        /\ now' = now + DefaultExpiresIn
  /\ UNCHANGED <<store, lastCall, posterVars, dropped, calendarVars, textVars, cycle, publisherVars>>

\* a caller of schedulePost writes a post that has been due since PubStart
PubSchedulePost ==
  /\ pc = "idle"
  /\ \E p \in PubPairs :
       /\ store[PostId(p[1], p[2])] = NoItem
       /\ store' = schedulePost(store, p[1], p[2], <<Num(1)>>, PubStart)
       /\ lastCall' = [lastCall EXCEPT ![p] = [kind |-> "call", data |-> <<Num(1)>>,
                                               timestamp |-> PubStart]]
  /\ UNCHANGED <<now, posterVars, dropped, calendarVars, textVars, cycle, publisherVars>>

PubInit ==
  /\ now = PubStart
  /\ store = [i \in TableIds |-> NoItem]
  /\ lastCall = [p \in Pairs \cup PubPairs |-> NoItem]
  /\ pc = "idle"
  /\ scanned = {}
  /\ posts = {}
  /\ cur = NoItem
  /\ outcome = NoOutcome
  /\ removed = {}
  /\ status = 0
  /\ dropped = {}
  /\ monthLen = 30
  /\ firstWeekday = 0
  /\ hostOffset = 0
  /\ pure = NoPure
  /\ job = NoJob
  /\ cycle = NoCycle
  /\ env \in PubEnvs
  /\ client = NoClient
  /\ tw = NoTweet
  /\ aiProvider = ""
  /\ asked = NoAsk

PubNext ==
  \/ PubTick
  \/ PubSchedulePost
  \/ ColdStart
  \/ PosterScan
  \/ PubDispatch
  \/ PosterRemove
  \/ PosterReturn
  \/ PosterExit

PubSpec == PubInit /\ [][PubNext]_vars

----------------------------------------------------------------------------
(* The AI client (src/ai/request.js): provider selection and ask().         *)

\* the default priority order of getBestAvailableProvider
PROVIDERS == <<"openai", "openrouter", "deepseek", "groq", "together">>

ProviderNames == { PROVIDERS[i] : i \in DOMAIN PROVIDERS }

providerKeyMap(provider) ==
  CASE provider = "openai" -> "OPENAI_API_KEY"
    [] provider = "openrouter" -> "OPENROUTER_API_KEY"
    [] provider = "deepseek" -> "DEEPSEEK_API_KEY"
    [] provider = "groq" -> "GROQ_API_KEY"
    [] provider = "together" -> "TOGETHER_API_KEY"
    [] OTHER -> "undefined"

AiKeyNames == { providerKeyMap(p) : p \in ProviderNames }

\* config.providers[provider] exists and its apiKey (getENV(KEY, null)) is truthy
HasKey(e, provider) == provider \in ProviderNames /\ providerKeyMap(provider) \in e

AiThrew(error, key) == [threw |-> TRUE, error |-> error, key |-> key, provider |-> ""]
AiSelected(provider) == [threw |-> FALSE, error |-> "", key |-> "", provider |-> provider]

validateNothing(e, primary) == AiSelected("")

\* validatePrimaryProvider: AI_PROVIDER is set but its key is not
validatePrimaryProvider(e, primary) ==
  IF primary # "" /\ ~HasKey(e, primary)
    THEN AiThrew("primary-key-missing", providerKeyMap(primary))
    ELSE AiSelected("")

RECURSIVE priorityFromEnd(_, _)
priorityFromEnd(e, i) ==
  IF i > Len(PROVIDERS) THEN ""
  ELSE IF HasKey(e, PROVIDERS[Len(PROVIDERS) + 1 - i]) THEN PROVIDERS[Len(PROVIDERS) + 1 - i]
  ELSE priorityFromEnd(e, i + 1)

\* for (const provider of priority) from position i on: the first with a key, else null
RECURSIVE priorityFrom(_, _)
priorityFrom(e, i) ==
  IF i > Len(PROVIDERS) THEN ""
  ELSE IF HasKey(e, PROVIDERS[i]) THEN PROVIDERS[i]
  ELSE priorityFrom(e, i + 1)

getBestAvailableProvider(e, primary) ==
  LET v == validatePrimaryProvider(e, primary)
  IN IF v.threw THEN v
     ELSE IF primary # "" THEN AiSelected(primary)
     ELSE AiSelected(priorityFrom(e, 1))

\* getAIClient(provider): provider is options.provider, "" when not given
getAIClient(e, primary, provider) ==
  LET best == IF provider # "" THEN AiSelected(provider) ELSE getBestAvailableProvider(e, primary)
  IN IF best.threw THEN best
     ELSE IF best.provider = "" THEN AiThrew("no-credentials", "")
     ELSE IF ~HasKey(e, best.provider) THEN AiThrew("client-init", providerKeyMap(best.provider))
     ELSE best

\* what client.chat.completions.create does: a usable answer, or an error of the service
AiResponses == {"ok", "error"}

\* ask(messages, options): one request to the selected provider
ask(e, primary, provider, resp) ==
  LET c == getAIClient(e, primary, provider)
  IN IF c.threw THEN [threw |-> TRUE, error |-> c.error, key |-> c.key, provider |-> "",
                      requests |-> <<>>]
     ELSE [threw |-> resp # "ok", error |-> IF resp = "ok" THEN "" ELSE "service",
           key |-> "", provider |-> c.provider, requests |-> <<c.provider>>]

\* writeTweet / writeCaption: the text, or null when ask threw
writeTweet(a) == IF a.threw THEN "null" ELSE "text"

AskRecord(a, id, resp) ==
  [called |-> TRUE, id |-> id, threw |-> a.threw, error |-> a.error, key |-> a.key,
   provider |-> a.provider, requests |-> a.requests,
   resp |-> IF a.requests = <<>> THEN "" ELSE resp]

----------------------------------------------------------------------------
(* The Poster with the AI client: the text of a post comes from ask() under *)
(* the configuration of the process; the platform calls are arguments.      *)

\* the value of AI_PROVIDER: unset, a supported provider, or another name
PrimaryProviders == {""} \cup ProviderNames \cup {"claude"}

\* the content routine gets as far as writeTweet / writeCaption
CallsAsk(post, img) ==
  \/ post.platform = "twitter" /\ buildTweetPrompt(post.target) # ""
  \/ CallsPublishImage(post, img)

\* ask() called from outside the Poster (it is exported)
AskCall ==
  /\ pc = "idle"
  /\ \E resp \in AiResponses :
       asked' = AskRecord(ask(env, aiProvider, "", resp), "", resp)
  /\ UNCHANGED <<now, store, lastCall, posterVars, dropped, calendarVars, textVars, cycle, env, client,
                 tw, aiProvider>>

\* the loop body of the handler with the AI client it reaches
AiDispatch ==
  /\ pc = "loop"
  /\ posts # {}
  /\ \E img \in ImgOutcomes, pub \in PubOutcomes, resp \in AiResponses :
       LET post == FirstOf(posts)
           a == ask(env, aiProvider, "", resp)
       IN /\ LoopBody(post, Dispatch(post.platform, post.target, post.data,
                                     writeTweet(a), img, pub))
          /\ asked' = IF CallsAsk(post, img) THEN AskRecord(a, post.id, resp) ELSE asked
  /\ UNCHANGED <<now, store, lastCall, scanned, removed, status, dropped, calendarVars, textVars, cycle,
                 env, client, tw, aiProvider>>

AiInit ==
  /\ now = PubStart
  /\ store = [i \in TableIds |-> NoItem]
  /\ lastCall = [p \in Pairs \cup PubPairs |-> NoItem]
  /\ pc = "idle"
  /\ scanned = {}
  /\ posts = {}
  /\ cur = NoItem
  /\ outcome = NoOutcome
  /\ removed = {}
  /\ status = 0
  /\ dropped = {}
  /\ monthLen = 30
  /\ firstWeekday = 0
  /\ hostOffset = 0
  /\ pure = NoPure
  /\ job = NoJob
  /\ cycle = NoCycle
  /\ env \in SUBSET AiKeyNames
  /\ client = NoClient
  /\ tw = NoTweet
  /\ aiProvider \in PrimaryProviders
  /\ asked = NoAsk

AiNext ==
  \/ AskCall
  \/ PubSchedulePost
  \/ PosterScan
  \/ AiDispatch
  \/ PosterRemove
  \/ PosterReturn
  \/ PosterExit

AiSpec == AiInit /\ [][AiNext]_vars

----------------------------------------------------------------------------
(* Claims about the Poster and the table, checked under Spec *)

\* C1: a ScheduledPost is removed in a Poster cycle only if the publish call
\* for that entry completed successfully earlier in the same cycle; an entry
\* for which nothing was published is never deleted.
C1_RemovedOnlyAfterPublish ==
  \A id \in removed : outcome[id] = "published"

OnlyKey(p) ==
  \A id \in DOMAIN store :
    (store[id] # NoItem /\ store[id].platform = p[1] /\ store[id].target = p[2])
      => id = PostId(p[1], p[2])

\* C2 as stated: after schedulePost calls for a pair with no removal in
\* between, the table holds exactly one entry post-<platform>-<target> and its
\* data and timestamp are those of the latest call.
C2_LatestCallStored ==
  \A p \in Pairs :
    lastCall[p] # NoItem =>
      /\ store[PostId(p[1], p[2])] =
           PostItem(p[1], p[2], lastCall[p].data, lastCall[p].timestamp)
      /\ OnlyKey(p)

\* C2 amended: ... its timestamp is that of the latest call and its data is
\* the data of the latest call with every number above
\* Number.MAX_SAFE_INTEGER replaced by its decimal string.
C2_LatestCallStoredConverted ==
  \A p \in Pairs :
    lastCall[p] # NoItem =>
      /\ store[PostId(p[1], p[2])] =
           PostItem(p[1], p[2], convertLargeNumbersToString(lastCall[p].data),
                    lastCall[p].timestamp)
      /\ OnlyKey(p)

\* a pair scheduled a second time before the first entry (the one the running
\* cycle scanned) was consumed, the second payload holding a number above
\* MAX_SAFE_INTEGER, next to another pair of the same platform
C2_Witness ==
  /\ pc = "remove"
  /\ cur.id = PostId("twitter", "trends")
  /\ store[cur.id] # NoItem
  /\ store[cur.id] # cur
  /\ lastCall[<<"twitter", "trends">>].data = <<Num(4)>>
  /\ store[cur.id].data = <<Str(4)>>
  /\ lastCall[<<"twitter", "nft">>] # NoItem

\* the state right after the due-scan of a cycle
FreshScan == pc = "loop" /\ \A id \in DOMAIN outcome : outcome[id] = "none"

\* C3: the due-scan at time now returns a stored ScheduledPost if and only if
\* its timestamp is <= now (boundary included).
C3_DueScanExact ==
  FreshScan =>
    /\ \A id \in DOMAIN store :
         store[id] # NoItem => (store[id] \in scanned <=> store[id].timestamp <= now)
    /\ \A e \in scanned : store[e.id] = e

\* a scan that returned an entry with timestamp = now and left one with timestamp > now
C3_Witness ==
  /\ FreshScan
  /\ \E e \in scanned : e.timestamp = now
  /\ \E id \in DOMAIN store :
       store[id] # NoItem /\ store[id].timestamp > now /\ store[id] \notin scanned

SomeThrew == \E e \in scanned : outcome[e.id] = "threw"

\* C4: when the publish routine of one due entry throws, every other due entry
\* of the scan is still dispatched in the same cycle and, when its publish
\* succeeded, deleted; the handler returns status 200.
C4_ThrowDoesNotStopTheCycle ==
  (pc = "done" /\ SomeThrew) =>
    /\ status = 200
    /\ \A e \in scanned :
         /\ outcome[e.id] # "none"
         /\ outcome[e.id] = "published" => (e.id \in removed /\ store[e.id] = NoItem)

\* a finished cycle in which the first entry threw and a later one was published and deleted
C4_Witness ==
  /\ pc = "done"
  /\ status = 200
  /\ \E e, f \in scanned :
       /\ ScanRank(e.id) < ScanRank(f.id)
       /\ outcome[e.id] = "threw"
       /\ outcome[f.id] = "published"
       /\ f.id \in removed
       /\ store[f.id] = NoItem

\* C5: when the publish routine of a due entry throws, removeScheduledPost is
\* not called for it and the entry stays in the table with the same data and
\* timestamp until the end of the cycle.
C5_FailedEntryKept ==
  \A e \in scanned :
    outcome[e.id] = "threw" => (e.id \notin removed /\ store[e.id] = e)

\* the end of a cycle in which an entry threw and is still stored as it was scanned
C5_Witness ==
  /\ pc = "done"
  /\ \E e \in scanned : outcome[e.id] = "threw" /\ store[e.id] = e /\ e.id \notin removed

\* C6: at-least-once delivery: every ScheduledPost that leaves the table
\* through the Poster has been published to its platform before.
C6_NothingLeavesUnpublished ==
  dropped = {}

----------------------------------------------------------------------------
(* Claims about the Scheduler, checked under SchedSpec (whole cycles) and   *)
(* FamilySpec (one family routine)                                          *)

FamilyPairs(f) ==
  CASE f = "daily" -> { <<"telegram", "dailyrecap">> }
    [] f = "popular" -> { <<"twitter", "trends">>, <<"twitter", "vol">> }
    [] f = "weekly" -> { <<"instagram", "weekly-coin">> }
    [] f = "monthly" -> { <<"instagram", "monthly-exchange">> }

\* the calendar gate of a family at time t, as the spec states it
GateOpen(f, t) ==
  CASE f = "weekly" -> Weekday(LocalDay(t, ScheduleTzOffset)) = 5
    [] f = "monthly" -> MonthOfDay(LocalDay(t, ScheduleTzOffset))
                          # MonthOfDay(LocalDay(t + DaySec, ScheduleTzOffset))
    [] OTHER -> TRUE

WrittenIn(calls, pair) ==
  \E i \in DOMAIN calls : calls[i].platform = pair[1] /\ calls[i].target = pair[2]

NonEmpty == Arr(<<Num(1)>>)

\* 09:00 of the day after t in the schedule zone
NineTomorrow(t) == (LocalDay(t, ScheduleTzOffset) + 1) * DaySec + 9 * HourSec - ScheduleTzOffset

\* C7: in a Scheduler cycle in which the market-data fetch of one family
\* fails, the other families whose gates are open are still fetched and their
\* ScheduledPosts written in the same cycle.
C7_FetchFailureIsolated ==
  (cycle.ran /\ \E f \in Families : GateOpen(f, now) /\ cycle.resp[f] = Fail) =>
    \A g \in Families :
      (GateOpen(g, now) /\ cycle.resp[g] = NonEmpty) =>
        \A pair \in FamilyPairs(g) : WrittenIn(cycle.calls, pair)

\* C8: after a Scheduler cycle at time now in which every fetch succeeds with
\* non-empty data the table holds (telegram, dailyrecap), (twitter, trends)
\* and (twitter, vol); every notBefore is > now and is 09:00 of the following
\* day in the schedule zone, that of (twitter, vol) 3600 s later than trends.
C8_DailyPostsAtNineTomorrow ==
  (cycle.ran /\ \A f \in Families : cycle.resp[f] = NonEmpty) =>
    /\ \A pair \in FamilyPairs("daily") \cup FamilyPairs("popular") :
         /\ store[PostId(pair[1], pair[2])] # NoItem
         /\ store[PostId(pair[1], pair[2])].timestamp > now
    /\ store[PostId("telegram", "dailyrecap")].timestamp = NineTomorrow(now)
    /\ store[PostId("twitter", "trends")].timestamp = NineTomorrow(now)
    /\ store[PostId("twitter", "vol")].timestamp = NineTomorrow(now) + 3600

\* C9: a family whose market-data fetch returns a zero-length array makes no
\* schedulePost call.
C9_EmptyDataNotScheduled ==
  (cycle.ran /\ cycle.resp = Arr(<<>>)) => cycle.calls = <<>>

\* C10: the monthly-exchange family is scheduled in a Scheduler cycle if and
\* only if now, in the schedule zone, is the last calendar day of its month.
C10_MonthlyIffLastDay ==
  (cycle.ran /\ \A f \in Families : cycle.resp[f] = NonEmpty) =>
    (WrittenIn(cycle.calls, <<"instagram", "monthly-exchange">>) <=> GateOpen("monthly", now))

\* C11: the weekly-coin family is written by the Scheduler only when now, in
\* the schedule zone, falls on a Friday: on any other weekday the weekly step
\* of midnight makes no schedulePost call for (instagram, weekly-coin).
C11_WeeklyOnlyOnFriday ==
  (cycle.ran /\ cycle.family = "weekly-step"
     /\ WrittenIn(cycle.calls, <<"instagram", "weekly-coin">>))
    => GateOpen("weekly", now)

\* the weekly step has run on a Friday and scheduled (instagram, weekly-coin)
C11_Witness ==
  /\ cycle.ran
  /\ cycle.family = "weekly-step"
  /\ GateOpen("weekly", now)
  /\ WrittenIn(cycle.calls, <<"instagram", "weekly-coin">>)
  /\ store[PostId("instagram", "weekly-coin")] # NoItem

----------------------------------------------------------------------------
(* Claims about the Twitter publisher and the records, checked under PubSpec *)

\* seconds between the save of a CredentialRecord and the instant t
TokenAge(rec, t) == t - rec.timestamp \div 1000

\* C12: for every tweet() call made while a CredentialRecord exists: if
\* now - savedAt >= expiresIn the token is refreshed before the tweet request
\* is sent; if now - savedAt < expiresIn no refresh request is made.
C12_RefreshIffExpired ==
  (tw.called /\ tw.before # NoItem) =>
    /\ (TokenAge(tw.before, tw.at) >= tw.before.expiresIn /\ tw.sent) => tw.refreshed
    /\ TokenAge(tw.before, tw.at) < tw.before.expiresIn => ~tw.refresh

BootstrapNames == {"TWITTER_ACCESS_TOKEN", "TWITTER_REFRESH_TOKEN"}

\* C13: on the first Twitter use with no stored CredentialRecord, init persists
\* a record built from the bootstrap TWITTER_ACCESS_TOKEN and
\* TWITTER_REFRESH_TOKEN with expiry 6000 s and returns a usable client without
\* a refresh request; if either bootstrap token is missing it fails and
\* persists nothing.
C13_BootstrapOnFirstUse ==
  (tw.called /\ ~tw.cached /\ tw.before = NoItem) =>
    IF BootstrapNames \subseteq env
      THEN /\ store["twitter"] =
                [kind |-> "credential", id |-> "twitter",
                 accessToken |-> "env:TWITTER_ACCESS_TOKEN",
                 refreshToken |-> "env:TWITTER_REFRESH_TOKEN",
                 expiresIn |-> 6000, timestamp |-> tw.at * 1000]
           /\ ~tw.refresh
           /\ tw.sent
           /\ client = [kind |-> "client", token |-> "env:TWITTER_ACCESS_TOKEN"]
      ELSE /\ tw.threw
           /\ ~tw.sent
           /\ client = NoClient
           /\ store["twitter"] = NoItem

\* a first tweet() that found no record, stored the bootstrap one and posted
C13_Witness ==
  /\ tw.called
  /\ tw.before = NoItem
  /\ tw.action = "first"
  /\ tw.posted
  /\ store["twitter"] # NoItem
  /\ store["twitter"].expiresIn = 6000

\* the step is a tweet() call
TweetStep == tw' # tw /\ tw'.called

\* C14: the CredentialRecord is written only by the bootstrap step and by a
\* successful refresh; a successful refresh stores the new accessToken,
\* refreshToken and expiresIn with a fresh savedAt; a tweet posted with a
\* still-valid token leaves the record unchanged.
C14_RecordWrittenByBootstrapAndRefresh ==
  [][ /\ store'["twitter"] # store["twitter"] =>
           /\ TweetStep
           /\ (tw'.action = "first" /\ store["twitter"] = NoItem) \/ tw'.refreshed
      /\ (TweetStep /\ tw'.refreshed) =>
           store'["twitter"] =
             [kind |-> "credential", id |-> "twitter",
              accessToken |-> tw'.result.accessToken,
              refreshToken |-> tw'.result.refreshToken,
              expiresIn |-> tw'.result.expiresIn, timestamp |-> now * 1000]
      /\ (TweetStep /\ tw'.posted /\ tw'.before # NoItem
            /\ TokenAge(tw'.before, now) < tw'.before.expiresIn) =>
           store'["twitter"] = store["twitter"]
    ]_vars

\* a tweet posted after a refresh that replaced an older record
C14_Witness ==
  /\ tw.called
  /\ tw.refreshed
  /\ tw.posted
  /\ tw.before # NoItem
  /\ store["twitter"].accessToken = "a1"
  /\ store["twitter"].timestamp = tw.at * 1000
  /\ tw.before.timestamp < store["twitter"].timestamp

\* the last tweet() found the token expired and its refresh request failed
RefreshFailed(t) ==
  /\ t.called
  /\ t.before # NoItem
  /\ TokenAge(t.before, t.at) >= t.before.expiresIn
  /\ t.refresh
  /\ t.result = RefreshThrows \/ t.result.refreshToken = ""

\* C15: when the token is expired and the refresh fails (the call throws or
\* returns no refreshToken), tweet() throws, no tweet is sent, the
\* CredentialRecord is unchanged, and the Poster keeps the ScheduledPost and
\* goes on with the remaining entries of the cycle.
C15_RefreshFailureKeepsPost ==
  /\ [][ (TweetStep /\ RefreshFailed(tw')) =>
           /\ tw'.threw
           /\ ~tw'.sent
           /\ store'["twitter"] = store["twitter"]
           /\ store[tw'.id] # NoItem
           /\ store'[tw'.id] = store[tw'.id]
           /\ outcome'[tw'.id] = "threw"
           /\ pc' = "loop"
           /\ posts' = tw'.rest
      ]_vars
  /\ [](RefreshFailed(tw) =>
           /\ store[tw.id] \in scanned
           /\ tw.id \notin removed
           /\ store["twitter"] = tw.before
           /\ pc = "done" => (status = 200 /\ \A e \in scanned : outcome[e.id] # "none"))

\* the end of a cycle in which the refresh returned no refreshToken for the
\* tweet, the tweet is still stored, and the entry after it was published
C15_Witness ==
  /\ pc = "done"
  /\ RefreshFailed(tw)
  /\ tw.result # RefreshThrows
  /\ store[tw.id] # NoItem
  /\ outcome[PostId("instagram", "weekly-coin")] = "published"
  /\ store[PostId("instagram", "weekly-coin")] = NoItem

\* C16: once the CredentialRecord (id "twitter") or the session record (id
\* "instagram") exists it exists in every later state: no step deletes it, and
\* schedulePost / removeScheduledPost, whose ids are post-<platform>-<target>,
\* neither overwrite nor delete it.
C16_RecordsNeverDeleted ==
  [][ \A id \in RecordIds :
        store[id] # NoItem =>
          /\ store'[id] # NoItem
          /\ store'[id].kind = store[id].kind
          /\ store'[id].id = id
    ]_vars

\* both records are stored and the cycle has deleted the posts of both platforms
C16_Witness ==
  /\ store["twitter"] # NoItem
  /\ store["instagram"] # NoItem
  /\ removed = { PostId("twitter", "trends"), PostId("instagram", "weekly-coin") }
  /\ store[PostId("twitter", "trends")] = NoItem
  /\ tw.called
  /\ tw.before # NoItem

----------------------------------------------------------------------------
(* Claims about the AI client, checked under AiSpec *)

\* the providers of the fixed order openai, openrouter, deepseek, groq,
\* together that have a key, by their position in that order
Keyed(e) == { i \in 1..5 : providerKeyMap(PROVIDERS[i]) \in e }

\* C17: with no forced primary provider the provider selected for a request
\* is the first of openai, openrouter, deepseek, groq, together whose API key
\* is non-empty, for every combination of keys; with no key at all the
\* request fails with a no-credentials error.
C17_FirstProviderWithKey ==
  (asked.called /\ aiProvider = "") =>
    IF Keyed(env) = {}
      THEN asked.threw /\ asked.error = "no-credentials" /\ asked.requests = <<>>
      ELSE /\ asked.error \in {"", "service"}
           /\ asked.provider =
                <<"openai", "openrouter", "deepseek", "groq", "together">>
                  [CHOOSE i \in Keyed(env) : \A j \in Keyed(env) : i <= j]
           /\ asked.requests = <<asked.provider>>

\* only the key of the third provider is set: the request went to it and was answered
C17_Witness ==
  /\ asked.called
  /\ aiProvider = ""
  /\ env = {"DEEPSEEK_API_KEY"}
  /\ asked.provider = "deepseek"
  /\ ~asked.threw

\* the environment variable that holds the key of a provider
KeyOf(provider) ==
  CASE provider = "openai" -> "OPENAI_API_KEY"
    [] provider = "openrouter" -> "OPENROUTER_API_KEY"
    [] provider = "deepseek" -> "DEEPSEEK_API_KEY"
    [] provider = "groq" -> "GROQ_API_KEY"
    [] provider = "together" -> "TOGETHER_API_KEY"

\* C18: when a forced primary provider (AI_PROVIDER) is configured and its API
\* key is absent, selection raises a configuration error naming the missing
\* key and no other provider is selected, whatever keys the others have; when
\* its key is present the forced provider is the one selected.
C18_ForcedProviderOrError ==
  (asked.called /\ aiProvider \in {"openai", "openrouter", "deepseek", "groq", "together"}) =>
    IF KeyOf(aiProvider) \in env
      THEN asked.provider = aiProvider /\ asked.requests = <<aiProvider>>
      ELSE /\ asked.threw
           /\ asked.error = "primary-key-missing"
           /\ asked.key = KeyOf(aiProvider)
           /\ asked.provider = ""
           /\ asked.requests = <<>>

\* groq is forced without its key while openai has one: the request failed, naming GROQ_API_KEY
C18_Witness ==
  /\ asked.called
  /\ aiProvider = "groq"
  /\ env = {"OPENAI_API_KEY"}
  /\ asked.threw
  /\ asked.key = "GROQ_API_KEY"
  /\ asked.requests = <<>>

\* the last ask() was made for an entry of the cycle and met a configuration error
ConfigErrorMet ==
  /\ asked.called
  /\ asked.id # ""
  /\ asked.error \in {"no-credentials", "primary-key-missing"}

\* C19: a configuration error (no AI provider key, or a forced provider
\* without its key) met while processing an entry is fatal for the
\* invocation: the Poster stops at once with an error, processes no further
\* entry and deletes no entry because of it.
C19_ConfigErrorAbortsInvocation ==
  ConfigErrorMet =>
    /\ status # 200
    /\ asked.id \notin removed
    /\ pc = "remove" => cur.id # asked.id
    /\ \A e \in scanned : ScanRank(e.id) > ScanRank(asked.id) => outcome[e.id] = "none"

\* the positions of the providers with a key other than the one first requested
OthersKeyed ==
  { i \in Keyed(env) : <<"openai", "openrouter", "deepseek", "groq", "together">>[i]
                         # asked.requests[1] }

\* C20: when the completion request to the selected provider fails and
\* another provider has a key, ask() issues the request to the next best
\* available provider in priority order.
C20_FallbackToNextProvider ==
  (asked.called /\ asked.requests # <<>> /\ asked.resp = "error" /\ OthersKeyed # {}) =>
    /\ Len(asked.requests) >= 2
    /\ asked.requests[2] =
         <<"openai", "openrouter", "deepseek", "groq", "together">>
           [CHOOSE i \in OthersKeyed : \A j \in OthersKeyed : i <= j]

----------------------------------------------------------------------------
(* Text routines. A JavaScript string is modelled as the sequence of its     *)
(* characters, so that trimming, slicing and lengths are computed.           *)

MaxPad == 1        \* a text carries at most this many blanks on either side

\* the characters String.prototype.trim removes, which are those of \s
Whitespace == {" ", "\t", "\n", "\r"}

\* a string of n copies of the character c
Repeat(c, n) == [i \in 1..n |-> c]

RECURSIVE trimStart(_)
trimStart(s) ==
  IF s # <<>> /\ Head(s) \in Whitespace THEN trimStart(Tail(s)) ELSE s

RECURSIVE trimEnd(_)
trimEnd(s) ==
  IF s # <<>> /\ s[Len(s)] \in Whitespace THEN trimEnd(SubSeq(s, 1, Len(s) - 1)) ELSE s

\* String.prototype.trim
trim(s) == trimEnd(trimStart(s))

----------------------------------------------------------------------------
(* The AI client: what ask() does with the resolved completion *)

UsablePartialLength == 20

\* the values of message.content: absent, a string, or an array of parts
ContentTexts ==
  {Repeat(" ", n) \o Repeat("a", m) \o Repeat("\n", k) :
     n \in 0..MaxPad, k \in 0..MaxPad,
     m \in {0, 1, UsablePartialLength, UsablePartialLength + 1}}
    \cup {<<"\"", "\"">>}

Contents ==
  {[kind |-> "undefined"], [kind |-> "array"]}
    \cup {[kind |-> "string", text |-> t] : t \in ContentTexts}

\* the values of choices[0].message
Messages ==
  {[kind |-> "undefined"]}
    \cup {[kind |-> "object", content |-> c, reasoning |-> r] :
            c \in Contents, r \in BOOLEAN}

\* the values of an element of result.choices
Choices ==
  {[kind |-> "null"]}
    \cup {[kind |-> "object", finish_reason |-> f, message |-> m] :
            f \in {"stop", "length"}, m \in Messages}

\* a complete choice, used for the elements after the first
FullChoice ==
  [kind |-> "object", finish_reason |-> "stop",
   message |-> [kind |-> "object", reasoning |-> FALSE,
                content |-> [kind |-> "string", text |-> <<"a">>]]]

\* the values client.chat.completions.create resolves to
Completions ==
  {[kind |-> "null"], [kind |-> "no_choices_field"],
   [kind |-> "object", choices |-> <<>>]}
    \cup {[kind |-> "object", choices |-> <<c>>] : c \in Choices}
    \cup {[kind |-> "object", choices |-> <<c, FullChoice>>] : c \in Choices}

\* JavaScript truthiness of message?.content
contentTruthy(choice) ==
  /\ choice.message.kind = "object"
  /\ choice.message.content.kind # "undefined"
  /\ choice.message.content.kind = "string" => choice.message.content.text # <<>>

\* the partial content of a truncated response can still be used
usablePartialLoose(content) == Len(trim(content.text)) > 0
usablePartial(content) == Len(trim(content.text)) > UsablePartialLength

AskThrew(error) == [threw |-> TRUE, error |-> error, choices |-> <<>>]

\* ask(): the part of the try block after the request resolved, and the catch
\* block, which rethrows every error
completion(result) ==
  IF result.kind # "object" \/ result.choices = <<>>
  THEN AskThrew("No response choices received from AI model")
  ELSE LET firstChoice == result.choices[1]
       IN IF firstChoice.kind = "null" THEN AskThrew("TypeError")
          ELSE IF /\ firstChoice.finish_reason = "length"
                  /\ contentTruthy(firstChoice)
                  /\ firstChoice.message.content.kind = "array"
          THEN AskThrew("TypeError")
          ELSE IF /\ firstChoice.finish_reason = "length"
                  /\ ~(contentTruthy(firstChoice) /\ usablePartial(firstChoice.message.content))
          THEN AskThrew("AI response was truncated before producing content")
          ELSE IF ~contentTruthy(firstChoice)
          THEN IF firstChoice.message.kind = "object" /\ firstChoice.message.reasoning
               THEN AskThrew("AI model exhausted tokens on reasoning")
               ELSE AskThrew("AI response contains no content")
          ELSE IF firstChoice.message.content.kind = "array" THEN AskThrew("TypeError")
          ELSE IF trim(firstChoice.message.content.text) = <<>>
          THEN IF firstChoice.message.reasoning
               THEN AskThrew("AI model exhausted tokens on reasoning")
               ELSE AskThrew("AI response contains no content")
          ELSE [threw |-> FALSE, error |-> "", choices |-> result.choices]

\* ask() with a client whose request resolved to the result
AskCompletion ==
  /\ pure = NoPure
  /\ \E result \in Completions :
       pure' = [op |-> "ask", result |-> result, out |-> completion(result)]
  /\ UNCHANGED <<now, store, lastCall, posterVars, dropped, calendarVars, job, cycle,
                 publisherVars>>

----------------------------------------------------------------------------
(* util.js: cleaning of the generated text. The regular expressions are     *)
(* computed as the JavaScript engine does: leftmost match, greedy, the scan *)
(* resuming after each match.                                               *)

\* the line terminators of ^ and $ under the m flag
LineTerminators == {"\n", "\r"}

\* the characters of [ \t]
Blanks == {" ", "\t"}

\* the characters of \w that the texts use
WordChars == {"a", "b", "n", "r", "_", "1"}

\* the backtick character
Backtick == "BACKTICK"

\* the one-character marker U+2026 appended to a cut text
Ellipsis == <<"ELLIPSIS">>

StartsWith(s, p) == Len(s) >= Len(p) /\ SubSeq(s, 1, Len(p)) = p
EndsWith(s, p) == Len(s) >= Len(p) /\ SubSeq(s, Len(s) - Len(p) + 1, Len(s)) = p

\* s.slice(n)
Drop(s, n) == SubSeq(s, n + 1, Len(s))

\* s.slice(0, n)
Take(s, n) == SubSeq(s, 1, IF n < Len(s) THEN n ELSE Len(s))

\* s.includes(p)
Includes(s, p) == \E i \in 0..(Len(s) - Len(p)) : SubSeq(s, i + 1, i + Len(p)) = p

\* the length of the longest prefix of s made of characters of the class
RECURSIVE runIn(_, _)
runIn(s, class) ==
  IF s # <<>> /\ Head(s) \in class THEN 1 + runIn(Tail(s), class) ELSE 0

\* the length of the longest prefix of s without the character c
RECURSIVE runNot(_, _)
runNot(s, c) ==
  IF s # <<>> /\ Head(s) # c THEN 1 + runNot(Tail(s), c) ELSE 0

\* s.replace(/pat/g, rep) for a literal pattern
RECURSIVE replaceAll(_, _, _)
replaceAll(s, pat, rep) ==
  IF s = <<>> THEN <<>>
  ELSE IF StartsWith(s, pat) THEN rep \o replaceAll(Drop(s, Len(pat)), pat, rep)
  ELSE <<Head(s)>> \o replaceAll(Tail(s), pat, rep)

\* Step 1: escaped line breaks
unescapeBreaks(s) ==
  replaceAll(replaceAll(s, <<"\\", "r", "\\", "n">>, <<"\r", "\n">>),
             <<"\\", "n">>, <<"\n">>)

\* Step 2: trim and remove one pair of wrapping quotes
unquote(s) ==
  LET t == trim(s)
  IN IF \/ StartsWith(t, <<"\"">>) /\ EndsWith(t, <<"\"">>)
        \/ StartsWith(t, <<"'">>) /\ EndsWith(t, <<"'">>)
     THEN SubSeq(t, 2, Len(t) - 1)
     ELSE t

\* /\*\*([^*]+)\*\*/g and the same pattern with backticks: a delimiter, one or more characters
\* other than c, the delimiter again
RECURSIVE stripPaired(_, _, _)
stripPaired(s, delim, c) ==
  IF s = <<>> THEN <<>>
  ELSE LET d == Len(delim)
           n == IF StartsWith(s, delim) THEN runNot(Drop(s, d), c) ELSE 0
       IN IF StartsWith(s, delim) /\ n >= 1 /\ StartsWith(Drop(s, d + n), delim)
          THEN SubSeq(s, d + 1, d + n) \o stripPaired(Drop(s, 2 * d + n), delim, c)
          ELSE <<Head(s)>> \o stripPaired(Tail(s), delim, c)

\* /(?<!\*)\*([^*]+)\*(?!\*)/g; prev is the character before s in the text
RECURSIVE stripItalic(_, _)
stripItalic(s, prev) ==
  IF s = <<>> THEN <<>>
  ELSE LET n == IF Head(s) = "*" THEN runNot(Tail(s), "*") ELSE 0
       IN IF /\ Head(s) = "*" /\ prev # "*" /\ n >= 1
             /\ Len(s) >= n + 2 /\ s[n + 2] = "*"
             /\ (Len(s) >= n + 3 => s[n + 3] # "*")
          THEN SubSeq(s, 2, n + 1) \o stripItalic(Drop(s, n + 2), "*")
          ELSE <<Head(s)>> \o stripItalic(Tail(s), Head(s))

\* /^#{1,6}\s+/gm; atStart tells whether s begins a line of the text
RECURSIVE stripHeaders(_, _)
stripHeaders(s, atStart) ==
  IF s = <<>> THEN <<>>
  ELSE LET h == runIn(s, {"#"})
           w == runIn(Drop(s, h), Whitespace)
       IN IF atStart /\ h >= 1 /\ h <= 6 /\ w >= 1
          THEN stripHeaders(Drop(s, h + w), s[h + w] \in LineTerminators)
          ELSE <<Head(s)>> \o stripHeaders(Tail(s), Head(s) \in LineTerminators)

\* Step 3: markdown
stripMarkdown(s) ==
  stripHeaders(stripPaired(stripItalic(stripPaired(s, <<"*", "*">>, "*"), ""),
                           <<Backtick>>, Backtick),
               TRUE)

normalizeLineBreaks(s, style) ==
  LET normalized == replaceAll(replaceAll(s, <<"\r", "\n">>, <<"\n">>), <<"\r">>, <<"\n">>)
  IN IF style = <<"\r", "\n">> THEN replaceAll(normalized, <<"\n">>, <<"\r", "\n">>)
     ELSE normalized

\* Step 5: while (content.includes(tripleBreak)) replace every one by a double
RECURSIVE collapseBreaks(_, _)
collapseBreaks(s, lineBreak) ==
  IF Includes(s, lineBreak \o lineBreak \o lineBreak)
  THEN collapseBreaks(replaceAll(s, lineBreak \o lineBreak \o lineBreak,
                                 lineBreak \o lineBreak), lineBreak)
  ELSE s

\* /[ \t]{2,}/g -> " "
RECURSIVE collapseBlanks(_)
collapseBlanks(s) ==
  IF s = <<>> THEN <<>>
  ELSE LET n == runIn(s, Blanks)
       IN IF n >= 2 THEN <<" ">> \o collapseBlanks(Drop(s, n))
          ELSE <<Head(s)>> \o collapseBlanks(Tail(s))

\* /^[ \t]+|[ \t]+$/gm -> ""
RECURSIVE trimLines(_, _)
trimLines(s, atStart) ==
  IF s = <<>> THEN <<>>
  ELSE LET n == runIn(s, Blanks)
           atEnd == n = Len(s) \/ (n < Len(s) /\ s[n + 1] \in LineTerminators)
       IN IF n >= 1 /\ (atStart \/ atEnd)
          THEN trimLines(Drop(s, n), FALSE)
          ELSE <<Head(s)>> \o trimLines(Tail(s), Head(s) \in LineTerminators)

\* content.split(separator)[0]
RECURSIVE firstBlock(_, _)
firstBlock(s, separator) ==
  IF s = <<>> \/ StartsWith(s, separator) THEN <<>>
  ELSE <<Head(s)>> \o firstBlock(Tail(s), separator)

\* the 0-based indexes of the matches of /#\w+/g
hashtagIndexes(s) ==
  {i \in 0..(Len(s) - 2) : s[i + 1] = "#" /\ s[i + 2] \in WordChars}

\* Math.max(content.lastIndexOf("\n"), content.lastIndexOf("\r"))
lastNewlineIndex(s) ==
  IF \E i \in 1..Len(s) : s[i] \in {"\n", "\r"}
  THEN (CHOOSE i \in 1..Len(s) :
          /\ s[i] \in {"\n", "\r"}
          /\ \A j \in (i + 1)..Len(s) : s[j] \notin {"\n", "\r"}) - 1
  ELSE -1

\* findHashtags(content).atEnd, as the set of its indexes
findHashtagsAtEnd(s) ==
  LET lastLineStartIndex ==
        IF lastNewlineIndex(s) = -1 THEN (Len(s) * 3) \div 4
        ELSE lastNewlineIndex(s) + 1
  IN {i \in hashtagIndexes(s) : i >= lastLineStartIndex}

formatHashtagBlock(s, lineBreak) ==
  IF findHashtagsAtEnd(s) = {} THEN s
  ELSE LET hashtagIndex == CHOOSE i \in findHashtagsAtEnd(s) :
                             \A j \in findHashtagsAtEnd(s) : i <= j
           from == IF hashtagIndex - 4 > 0 THEN hashtagIndex - 4 ELSE 0
           beforeHashtag == SubSeq(s, from + 1, hashtagIndex)
       IN IF \/ Includes(beforeHashtag, <<"\n", "\n">>)
             \/ Includes(beforeHashtag, <<"\r", "\n", "\r", "\n">>)
          THEN s
          ELSE trimEnd(Take(s, hashtagIndex)) \o lineBreak \o lineBreak
                 \o Drop(s, hashtagIndex)

\* Step 8 with a limit: content.slice(0, maxLength - 1).trimEnd() + marker
truncateKeepAll(s, maxLength) == s \o Ellipsis
truncate(s, maxLength) == trimEnd(Take(s, maxLength - 1)) \o Ellipsis

\* formatContent(content, options) for a string; maxLength 0 stands for no limit
formatContent(content, options) ==
  IF content = <<>> THEN <<>>
  ELSE LET s1 == unescapeBreaks(content)
           s2 == unquote(s1)
           s3 == stripMarkdown(s2)
           s4 == normalizeLineBreaks(s3, options.lineBreak)
           s5 == trim(trimLines(collapseBlanks(collapseBreaks(s4, options.lineBreak)), TRUE))
           s6 == IF options.keepFirstBlock
                 THEN trim(firstBlock(s5, IF options.lineBreak = <<"\r", "\n">>
                                          THEN <<"\r", "\n", "\r", "\n">>
                                          ELSE <<"\n", "\n">>))
                 ELSE s5
           s7 == IF options.formatHashtags THEN formatHashtagBlock(s6, options.lineBreak)
                 ELSE s6
       IN IF options.maxLength # 0 /\ Len(s7) > options.maxLength
          THEN truncate(s7, options.maxLength)
          ELSE s7

----------------------------------------------------------------------------
(* ai/index.js: writeTweet and writeCaption *)

TweetMaxLength == 280
CaptionMaxLength == 400

\* the values passed as subject
Subjects ==
  {[kind |-> "null"], [kind |-> "number"]}
    \cup {[kind |-> "string", text |-> t] :
            t \in {<<>>, <<" ">>, <<"\n", " ">>, <<"a">>, <<" ", "a", "\n">>}}

\* !subject || typeof subject !== "string" || subject.trim().length === 0
validSubjectLoose(subject) == subject.kind = "string" /\ subject.text # <<>>
validSubject(subject) == subject.kind = "string" /\ trim(subject.text) # <<>>

\* what the await of ask() gives: a configuration error, a rejected request,
\* or what ask() makes of the resolved completion
AskOutcomes ==
  {AskThrew("configuration"), AskThrew("request")}
    \cup {completion(result) : result \in Completions}

\* the line break styles of the options
LineBreaks == {<<"\n">>, <<"\r", "\n">>}

\* writeTweet (kind "tweet") and writeCaption (kind "caption") with the outcome a
\* of their call of ask()
write(kind, subject, lineBreak, a) ==
  IF ~validSubject(subject)
  THEN [threw |-> TRUE, asked |-> FALSE, null |-> FALSE, text |-> <<>>]
  ELSE IF a.threw \/ a.choices = <<>>
  THEN [threw |-> FALSE, asked |-> TRUE, null |-> TRUE, text |-> <<>>]
  ELSE [threw |-> FALSE, asked |-> TRUE, null |-> FALSE,
        text |-> formatContent(a.choices[1].message.content.text,
                   [lineBreak |-> lineBreak,
                    maxLength |-> IF kind = "tweet" THEN TweetMaxLength
                                  ELSE CaptionMaxLength,
                    keepFirstBlock |-> kind = "tweet",
                    formatHashtags |-> TRUE])]

WriteCall ==
  /\ pure = NoPure
  /\ \E kind \in {"tweet", "caption"}, subject \in Subjects, lineBreak \in LineBreaks,
        a \in AskOutcomes :
       pure' = [op |-> "write", kind |-> kind, subject |-> subject, ask |-> a,
                out |-> write(kind, subject, lineBreak, a)]
  /\ UNCHANGED <<now, store, lastCall, posterVars, dropped, calendarVars, job, cycle,
                 publisherVars>>

----------------------------------------------------------------------------
(* formatContent on the texts built from a few pieces *)

MaxPieces == 3     \* a text passed to formatContent is made of at most this many pieces

\* the pieces: a letter, a blank, a line break, a quote, an asterisk, a hashtag
Pieces == {<<"a">>, <<" ">>, <<"\n">>, <<"\"">>, <<"*">>, <<"#", "b">>}

RECURSIVE TextsOf(_)
TextsOf(n) ==
  IF n = 0 THEN {<<>>}
  ELSE TextsOf(n - 1) \cup {t \o p : t \in TextsOf(n - 1), p \in Pieces}

\* the options; maxLength is absent (0) or a limit the texts can exceed
FormatOptions ==
  [lineBreak : LineBreaks, maxLength : {0, 1, 3},
   keepFirstBlock : BOOLEAN, formatHashtags : BOOLEAN]

\* formatContent(content, options), then the same call on its result, and the
\* call without maxLength
FormatCall ==
  /\ pure = NoPure
  /\ \E content \in TextsOf(MaxPieces), options \in FormatOptions :
       pure' = [op |-> "format", content |-> content, options |-> options,
                out |-> formatContent(content, options),
                again |-> formatContent(formatContent(content, options), options),
                unlimited |-> formatContent(content, [options EXCEPT !.maxLength = 0])]
  /\ UNCHANGED <<now, store, lastCall, posterVars, dropped, calendarVars, job, cycle,
                 publisherVars>>

----------------------------------------------------------------------------
(* twitter.js: a tweet with media attachments *)

MaxMedia == 3      \* a tweet carries at most this many media items

\* the lists passed as mediaFiles; the name of an item is its position, and an
\* item fails at nothing, at the download or the read of the file, at the type
\* sniffing, or at the upload
MediaLists ==
  UNION {{[i \in 1..n |-> [name |-> i, url |-> k[i], fails |-> f[i]]] :
            k \in [1..n -> BOOLEAN], f \in [1..n -> {"none", "read", "type", "upload"}]} : n \in 0..MaxMedia}

\* download(file) or readFileSync(file)
readMedia(file) ==
  IF file.fails = "read" THEN [threw |-> TRUE] ELSE [threw |-> FALSE, buffer |-> file.name]

\* uploadMedia(buffer): the media id of an item is named after the item
uploadMedia(file) ==
  IF file.fails \in {"type", "upload"} THEN [threw |-> TRUE]
  ELSE [threw |-> FALSE, mediaId |-> file.name]

RECURSIVE prepareUntilFailure(_)
prepareUntilFailure(mediaFiles) ==
  IF mediaFiles = <<>> THEN <<>>
  ELSE IF readMedia(Head(mediaFiles)).threw \/ uploadMedia(Head(mediaFiles)).threw THEN <<>>
  ELSE <<uploadMedia(Head(mediaFiles)).mediaId>> \o prepareUntilFailure(Tail(mediaFiles))

\* prepareMediaFiles: the for-of loop with its try/catch around one item
RECURSIVE prepareMediaFiles(_)
prepareMediaFiles(mediaFiles) ==
  IF mediaFiles = <<>> THEN <<>>
  ELSE (IF readMedia(Head(mediaFiles)).threw \/ uploadMedia(Head(mediaFiles)).threw
        THEN <<>>
        ELSE <<uploadMedia(Head(mediaFiles)).mediaId>>)
         \o prepareMediaFiles(Tail(mediaFiles))

\* tweet(text, mediaFiles) in a process whose client is initialised; send is
\* what client.v2.tweet does
tweetMedia(text, mediaFiles, send) ==
  LET mediaIds == prepareMediaFiles(mediaFiles)
      options == IF Len(mediaIds) > 0
                 THEN [text |-> text, media |-> [media_ids |-> mediaIds]]
                 ELSE [text |-> text]
  IN [threw |-> send = "throw", posted |-> send = "ok", options |-> options,
      hasMedia |-> Len(mediaIds) > 0, mediaIds |-> mediaIds]

TweetMediaCall ==
  /\ pure = NoPure
  /\ \E mediaFiles \in MediaLists, send \in PubOutcomes :
       pure' = [op |-> "tweet", mediaFiles |-> mediaFiles, send |-> send,
                out |-> tweetMedia("text", mediaFiles, send)]
  /\ UNCHANGED <<now, store, lastCall, posterVars, dropped, calendarVars, job, cycle,
                 publisherVars>>

----------------------------------------------------------------------------
(* tweet.js: the legacy tweet job and its last-run record *)

MinSpacing == 3480
MaxLegacySteps == 3   \* the clock of the legacy job advances at most this many times

\* Object.entries(tweets): the subjects in the order of the object literal
LegacySubjects == <<"trends", "vol">>

\* getLastRunTime($type): result.Item ?? false
getLastRunTime(st, type) == st["last-run-" \o type]

\* updateLastRunTime($type, $data): PutCommand with timestamp Date.now()
updateLastRunTime(st, type, actionSubject, t) ==
  [st EXCEPT !["last-run-" \o type] =
     [kind |-> "marker", id |-> "last-run-" \o type, timestamp |-> DateNow(t),
      actionSubject |-> actionSubject]]

\* Date.now() - (lastRun.timestamp ?? 0) < 3480 * 1000
tooSoonHalf(lastRun, t) ==
  DateNow(t) - (IF lastRun = NoItem THEN 0 ELSE lastRun.timestamp) < (MinSpacing \div 2) * 1000
tooSoon(lastRun, t) ==
  DateNow(t) - (IF lastRun = NoItem THEN 0 ELSE lastRun.timestamp) < MinSpacing * 1000

\* the first key of tweets after `delete tweets[lastRun.actionSubject]`
nextSubject(lastRun) ==
  IF lastRun # NoItem /\ lastRun.actionSubject = LegacySubjects[1]
  THEN LegacySubjects[2] ELSE LegacySubjects[1]

JobEnded(t, lastRun, gated, subject, tweeted, failed, wrote) ==
  [ran |-> TRUE, at |-> t, before |-> lastRun, gated |-> gated, subject |-> subject,
   tweeted |-> tweeted, failed |-> failed, wrote |-> wrote]

\* handler(event): popular is what getPopular does, text what writeTweet gives,
\* send what tweet() does, put what the PutCommand does; every error is caught
\* and logged by the handler
legacyHandler(st, t, popular, text, send, put) ==
  LET lastRun == getLastRunTime(st, "tweet")
      key == nextSubject(lastRun)
  IN IF popular = "throw"
       THEN [st |-> st, job |-> JobEnded(t, lastRun, FALSE, "", FALSE, TRUE, FALSE)]
     ELSE IF tooSoon(lastRun, t)
       THEN [st |-> st, job |-> JobEnded(t, lastRun, TRUE, "", FALSE, TRUE, FALSE)]
     ELSE IF text \in {"throw", "null"}           \* buildTweet calls null.replace
       THEN [st |-> st, job |-> JobEnded(t, lastRun, FALSE, key, FALSE, TRUE, FALSE)]
     ELSE IF text = "text" /\ send = "throw"
       THEN [st |-> st, job |-> JobEnded(t, lastRun, FALSE, key, FALSE, TRUE, FALSE)]
     ELSE IF put = "throw"
       THEN [st |-> st, job |-> JobEnded(t, lastRun, FALSE, key, text = "text", TRUE, FALSE)]
     ELSE [st |-> updateLastRunTime(st, "tweet", key, t),
           job |-> JobEnded(t, lastRun, FALSE, key, text = "text", FALSE, TRUE)]

LegacyRun ==
  /\ \E popular \in PubOutcomes, text \in {"text", "empty", "null", "throw"},
        send \in PubOutcomes, put \in PubOutcomes :
       LET r == legacyHandler(store, now, popular, text, send, put)
       IN /\ store' = r.st
          /\ job' = r.job
  /\ UNCHANGED <<now, lastCall, posterVars, dropped, calendarVars, pure, cycle, publisherVars>>

\* time passes between two runs: just under, or exactly, the minimum spacing
LegacyTick ==
  /\ (now - PubStart) \div (MinSpacing - 1) < MaxLegacySteps
  /\ \E d \in {MinSpacing - 1, MinSpacing} : now' = now + d
  /\ UNCHANGED <<store, lastCall, posterVars, dropped, calendarVars, textVars, cycle,
                 publisherVars>>

LegacyInit ==
  /\ now = PubStart
  /\ store = [i \in TableIds |-> NoItem]
  /\ lastCall = [p \in Pairs |-> NoItem]
  /\ pc = "idle"
  /\ scanned = {}
  /\ posts = {}
  /\ cur = NoItem
  /\ outcome = NoOutcome
  /\ removed = {}
  /\ status = 0
  /\ dropped = {}
  /\ monthLen = 30
  /\ firstWeekday = 0
  /\ hostOffset = 0
  /\ pure = NoPure
  /\ job = NoJob
  /\ cycle = NoCycle
  /\ env = {}
  /\ client = NoClient
  /\ tw = NoTweet
  /\ aiProvider = ""
  /\ asked = NoAsk

LegacyNext ==
  \/ LegacyRun
  \/ LegacyTick

LegacySpec == LegacyInit /\ [][LegacyNext]_vars

----------------------------------------------------------------------------
(* The table with all its writers: scheduled posts, the Twitter credential  *)
(* record, the Instagram session record and the last-run record, next to    *)
(* the Poster.  The Poster reads the table in its scan only, so the writes  *)
(* are taken between two cycles.                                            *)

\* updateTwitter called by the Twitter publisher
CredentialWrite ==
  /\ pc = "idle"
  /\ store' = updateTwitter(store, [accessToken |-> "a1", refreshToken |-> "r1",
                                    expiresIn |-> DefaultExpiresIn], now)
  /\ UNCHANGED <<now, lastCall, posterVars, dropped, calendarVars, textVars, cycle,
                 publisherVars>>

\* updateInstagram called by the Instagram login
SessionWrite ==
  /\ pc = "idle"
  /\ store' = updateInstagram(store, "serialized", now)
  /\ UNCHANGED <<now, lastCall, posterVars, dropped, calendarVars, textVars, cycle,
                 publisherVars>>

\* updateLastRunTime called by the legacy tweet job
MarkerWrite ==
  /\ pc = "idle"
  /\ \E subject \in {LegacySubjects[1], LegacySubjects[2]} :
       store' = updateLastRunTime(store, "tweet", subject, now)
  /\ UNCHANGED <<now, lastCall, posterVars, dropped, calendarVars, textVars, cycle,
                 publisherVars>>

TableTick ==
  /\ pc = "idle"
  /\ now < PubStart + MaxNow
  /\ now' = now + 1
  /\ UNCHANGED <<store, lastCall, posterVars, dropped, calendarVars, textVars, cycle,
                 publisherVars>>

TableNext ==
  \/ CredentialWrite
  \/ SessionWrite
  \/ MarkerWrite
  \/ PubSchedulePost
  \/ TableTick
  \/ PosterScan
  \/ PosterDispatch
  \/ PosterRemove
  \/ PosterReturn
  \/ PosterExit

TableSpec == LegacyInit /\ [][TableNext]_vars

----------------------------------------------------------------------------
(* The text routines on inputs of every shape: a behaviour is one call *)

TextInit ==
  /\ now = 0
  /\ store = [i \in TableIds |-> NoItem]
  /\ lastCall = [p \in Pairs |-> NoItem]
  /\ pc = "idle"
  /\ scanned = {}
  /\ posts = {}
  /\ cur = NoItem
  /\ outcome = NoOutcome
  /\ removed = {}
  /\ status = 0
  /\ dropped = {}
  /\ monthLen = 30
  /\ firstWeekday = 0
  /\ hostOffset = 0
  /\ cycle = NoCycle
  /\ env = {}
  /\ client = NoClient
  /\ tw = NoTweet
  /\ aiProvider = ""
  /\ asked = NoAsk
  /\ pure = NoPure
  /\ job = NoJob

TextNext ==
  \/ AskCompletion
  \/ WriteCall
  \/ FormatCall
  \/ TweetMediaCall

TextSpec == TextInit /\ [][TextNext]_vars

\* C21: ask() returns the choices only when the response has at least one
\* choice whose first element carries non-blank content; it throws when there
\* are no choices, when the content is empty or whitespace, and when
\* finish_reason is 'length' and the trimmed partial content has 20 characters
\* or fewer.
FirstText(result) ==
  IF /\ result.kind = "object" /\ result.choices # <<>>
     /\ result.choices[1].kind = "object"
     /\ result.choices[1].message.kind = "object"
     /\ result.choices[1].message.content.kind = "string"
  THEN result.choices[1].message.content.text
  ELSE <<>>

NonBlank(s) == \E i \in 1..Len(s) : s[i] \notin Whitespace

Truncated(result) ==
  /\ result.kind = "object" /\ result.choices # <<>>
  /\ result.choices[1].kind = "object"
  /\ result.choices[1].finish_reason = "length"

C21_AskReturnsOnlyUsableContent ==
  pure.op = "ask" =>
    /\ ~pure.out.threw =>
         /\ NonBlank(FirstText(pure.result))
         /\ pure.out.choices = pure.result.choices
    /\ ~NonBlank(FirstText(pure.result)) => pure.out.threw
    /\ (/\ Truncated(pure.result)
        /\ Cardinality({i \in 1..Len(FirstText(pure.result)) :
                          /\ \E j \in 1..i : FirstText(pure.result)[j] \notin Whitespace
                          /\ \E j \in i..Len(FirstText(pure.result)) :
                               FirstText(pure.result)[j] \notin Whitespace})
             <= UsablePartialLength)
         => pure.out.threw

\* a truncated response whose partial content is long enough is returned
C21_Witness ==
  /\ pure.op = "ask"
  /\ Truncated(pure.result)
  /\ ~pure.out.threw
  /\ Len(FirstText(pure.result)) > UsablePartialLength + 1

\* C22: writeTweet and writeCaption throw only for a subject that is null,
\* not a string, empty or blank, and then before ask() is called; for every
\* other subject each failure of ask() gives the return value null.
BlankSubject(subject) ==
  \/ subject.kind # "string"
  \/ \A i \in 1..Len(subject.text) : subject.text[i] \in Whitespace

C22_WriteReturnsNullOnFailure ==
  pure.op = "write" =>
    /\ pure.out.threw <=> BlankSubject(pure.subject)
    /\ pure.out.threw => ~pure.out.asked
    /\ (~BlankSubject(pure.subject) /\ pure.ask.threw) => pure.out.null
    /\ (~BlankSubject(pure.subject) /\ ~pure.ask.threw) => ~pure.out.null

\* a valid subject, and ask() throwing for a response without content
C22_Witness ==
  /\ pure.op = "write"
  /\ pure.subject.kind = "string" /\ pure.subject.text = <<" ", "a", "\n">>
  /\ pure.ask.threw /\ pure.ask.error = "AI response contains no content"
  /\ pure.out.null

\* C23: when writeTweet or writeCaption returned null for an entry, the
\* content routine makes no platform publish call for it: the entry is
\* skipped (no tweet, no publishImage with a null caption).
C23_NullTextSkipsPost ==
  (asked.called /\ asked.id # "" /\ writeTweet(asked) = "null") =>
    outcome[asked.id] = "skipped"

\* C24: formatContent is idempotent: for every text and every options object
\* formatContent(formatContent(s, o), o) equals formatContent(s, o).
C24_FormatContentIdempotent ==
  pure.op = "format" => pure.again = pure.out

MediaSucceeded(file) == file.fails = "none"

NamesOf(files) == [i \in 1..Len(files) |-> files[i].name]

C26_MediaBestEffort ==
  pure.op = "tweet" =>
    /\ pure.out.mediaIds = NamesOf(SelectSeq(pure.mediaFiles, MediaSucceeded))
    /\ pure.out.hasMedia <=> \E i \in 1..Len(pure.mediaFiles) : MediaSucceeded(pure.mediaFiles[i])
    /\ pure.out.hasMedia => pure.out.options.media.media_ids = pure.out.mediaIds
    /\ pure.send = "ok" => pure.out.posted /\ ~pure.out.threw

\* the first and the third of three items are attached, the second failed
C26_Witness ==
  /\ pure.op = "tweet"
  /\ Len(pure.mediaFiles) = 3
  /\ pure.mediaFiles[2].fails = "upload"
  /\ pure.out.posted
  /\ pure.out.mediaIds = <<1, 3>>

\* C27: an entry whose publish routine throws is neither deleted nor altered
\* by the Poster, every scan returns every entry that is due (however long it
\* has been due, and whatever happened to it before), and a cycle that ends
\* has attempted every entry of its scan: a failing entry is retried in every
\* cycle until a schedulePost call or a successful routine replaces it.
FailedEntryKept ==
  store' # store =>
    \A id \in PostIds :
      /\ (store[id] # NoItem /\ store'[id] = NoItem) =>
           (pc = "remove" /\ cur.id = id /\ outcome[id] \in {"published", "skipped"})
      /\ (store[id] # NoItem /\ store'[id] # NoItem /\ store'[id] # store[id]) =>
           (lastCall' # lastCall /\ UNCHANGED posterVars)

ScanTakesEveryDueEntry ==
  (pc = "idle" /\ pc' = "loop") =>
    \A id \in PostIds :
      (store[id] # NoItem /\ store[id].timestamp <= now) => store[id] \in scanned'

CycleAttemptsEveryScannedEntry ==
  pc' = "done" => \A e \in scanned' : outcome'[e.id] # "none"

C27_FailedEntryRetriedEveryCycle ==
  [][FailedEntryKept /\ ScanTakesEveryDueEntry /\ CycleAttemptsEveryScannedEntry]_vars

\* a cycle ended in which an entry that was already due before this cycle's
\* clock value threw again and is still in the table, unchanged
C27_Witness ==
  /\ pc = "done"
  /\ \E e \in scanned :
       /\ outcome[e.id] = "threw"
       /\ e.timestamp < now
       /\ store[e.id] = e

\* C28: a run of the legacy tweet job less than 3480 seconds after the
\* timestamp of the stored last-run record posts no tweet and leaves the
\* record unchanged; the record is written only at the end of a run that did
\* not fail, and then holds the time of the run and the subject it handled.
MarkerOf(st) == st["last-run-tweet"]

RunStep == job' # job /\ job'.ran

C28_LegacyRunSpacing ==
  [][RunStep =>
       /\ (/\ MarkerOf(store) # NoItem
           /\ now * 1000 - MarkerOf(store).timestamp < 3480 * 1000)
            => (~job'.tweeted /\ MarkerOf(store') = MarkerOf(store))
       /\ MarkerOf(store') # MarkerOf(store) =>
            /\ ~job'.failed
            /\ MarkerOf(store').timestamp = now * 1000
            /\ MarkerOf(store').actionSubject = job'.subject
            /\ MarkerOf(store) # NoItem => job'.subject # MarkerOf(store).actionSubject
       /\ \A id \in DOMAIN store : id # "last-run-tweet" => store'[id] = store[id]
    ]_vars

\* a run 3479 seconds after the last one was stopped, the record kept
C28_Witness ==
  /\ job.ran /\ job.gated
  /\ MarkerOf(store) # NoItem
  /\ MarkerOf(store) = job.before
  /\ job.at * 1000 - MarkerOf(store).timestamp = 3479 * 1000

\* C29: the Poster's delete removes only the version of the entry it
\* processed: when schedulePost has overwritten the entry between the scan and
\* the delete, the newly scheduled entry is still in the table after the
\* delete.
C29_DeleteSparesNewerVersion ==
  [][(/\ pc = "remove" /\ pc' = "loop"
      /\ store[cur.id] # NoItem
      /\ store[cur.id] # cur)
       => store'[cur.id] = store[cur.id]]_vars

\* C30: the records that are not scheduled posts (the Twitter credential
\* record, the Instagram session record, the last-run record), which carry a
\* timestamp attribute too, are never returned by the due-scan, and so are
\* never dispatched or deleted by the Poster.
C30_ScanReturnsOnlyPosts ==
  /\ \A id \in RecordIds :
       store[id] # NoItem => store[id] \notin getScheduledPosts(store, now)
  /\ \A e \in scanned \cup posts : e.id \in PostIds
  /\ cur # NoItem => cur.id \in PostIds
  /\ removed \subseteq PostIds

\* a cycle ended that scanned a due post while the three records were stored
C30_Witness ==
  /\ pc = "done"
  /\ scanned # {}
  /\ \A id \in RecordIds : store[id] # NoItem /\ store[id].timestamp = now * 1000

====
